---- MODULE Spec2Model ----
(***************************************************************************)
(* State-machine model of simuleval/scorer/scorer.py (SentenceLevelScorer).*)
(* One Scorer object is current at a time: it is built either by __init__  *)
(* with a configuration (the live path) or by from_log (the replay path).  *)
(* The Instance classes and sacrebleu live outside scorer.py; their        *)
(* behaviour is modelled from the specification's interface description.   *)
(* The attributes args, eval_latency_unit and no_space are only stored and *)
(* handed to the Instance constructor; they are not part of the state.     *)
(***************************************************************************)
EXTENDS Integers, Sequences, FiniteSets, TLC

\* ------------------------------------------------------------------ bounds
\* Largest corpus (len(dataloader)) the model builds.
MaxData == 2
\* Largest number of lines of a log file read by from_log.
MaxLog == 2

\* ------------------------------------------------------- value domains
\* The metric names get_latency_score loops over, in the code's order.
MetricNames == <<"AL", "AP", "DAL">>

\* metric + "_CA"
KeyCA == [AL |-> "AL_CA", AP |-> "AP_CA", DAL |-> "DAL_CA"]

\* metric + " (Time in ms)"
KeyTime == [AL |-> "AL (Time in ms)", AP |-> "AP (Time in ms)", DAL |-> "DAL (Time in ms)"]

\* Values of args.source_type the constructor accepts.
SourceTypes == {"speech", "text"}

\* Values of args.sacrebleu_tokenizer; "13a" is the constructor's default.
Tokenizers == {"13a", "char"}

\* Words a system can emit; a word is spelled by its characters.
Words == {"ab"}

Chars == [ab |-> <<"a", "b">>, ac |-> <<"a", "c">>]

\* dataloader[i]["source"]: the source of sentence i, one unit long.
Source(i) == <<"x">>

\* The segment sizes a driver asks for.
SegmentSizes == {1}

\* Longest prediction (in words) before the end-of-sequence marker.
PredictionLengths == 0..1

\* ------------------------------------------------------------ helpers
Min(a, b) == IF a < b THEN a ELSE b

RECURSIVE GCD(_, _)
GCD(a, b) == IF b = 0 THEN a ELSE GCD(b, a % b)

\* A function with an empty domain: the empty dict.
EmptyDict == [k \in {} |-> 0]

RECURSIVE SumOver(_, _)
SumOver(f, S) ==
    IF S = {} THEN 0
    ELSE LET k == CHOOSE x \in S : TRUE IN f[k] + SumOver(f, S \ {k})

\* The exact quotient n / d as a fraction in lowest terms (0/0 when d = 0).
Frac(n, d) ==
    IF d = 0 THEN [num |-> 0, den |-> 0]
    ELSE [num |-> n \div GCD(n, d), den |-> d \div GCD(n, d)]

\* statistics.mean of the values of f, a non-empty dict of integers.
mean(f) == Frac(SumOver(f, DOMAIN f), Cardinality(DOMAIN f))

\* range(start, end) as a set and as the ascending list Python iterates.
get_indices(start, end) == start .. (end - 1)

IndexList(start, end) ==
    IF end > start THEN [k \in 1..(end - start) |-> start + k - 1] ELSE <<>>

\* ------------------------------------------------- Instance (interface)
\* dataloader[i]["target"]: the reference of sentence i.
Reference(i) == IF i % 2 = 0 THEN <<"ab">> ELSE <<"ac">>

\* The metric families each Instance class computes at finalization.
FamiliesOf(cls) ==
    IF cls = "SpeechToTextInstance" THEN {"latency", "latency_ca"} ELSE {"latency"}

\* Latency sub-mapping of one family for a prediction of n words.
Latency(fam, n) ==
    LET base == IF fam = "latency" THEN 1 ELSE IF fam = "latency_ca" THEN 2 ELSE 3
    IN  [AL |-> base + n, AP |-> base, DAL |-> base + 2 * n]

\* The sub-mapping an instance computes from its own state at finalization.
LatencyOf(inst, fam) == Latency(fam, Len(inst.prediction_list))

\* instance_class(i, dataloader, args): a fresh instance.
NewInstance(cls, i) ==
    [index             |-> i,
     cls               |-> cls,
     step              |-> 0,
     prediction_list   |-> <<>>,
     prediction        |-> <<>>,
     reference         |-> Reference(i),
     finish_prediction |-> FALSE,
     metrics           |-> EmptyDict]

\* Instance.sentence_level_eval(): fixes the prediction string and computes
\* the terminal metrics; it does not touch finish_prediction.
sentence_level_eval(inst) ==
    [inst EXCEPT !.prediction = inst.prediction_list,
                 !.metrics = [fam \in FamiliesOf(inst.cls) |-> LatencyOf(inst, fam)]]

\* Instance.send_source(segment_size): <<instance after, response>>.
InstanceSendSource(inst, segment_size) ==
    LET to == Min(inst.step + segment_size, Len(Source(inst.index)))
    IN  <<[inst EXCEPT !.step = to],
          [segment  |-> SubSeq(Source(inst.index), inst.step + 1, to),
           finished |-> (to = Len(Source(inst.index)))]>>

\* Instance.receive_prediction(word): the end-of-sequence marker finishes the
\* instance and finalizes it; any other word is appended.
InstanceReceive(inst, word) ==
    IF word = "</s>"
    THEN sentence_level_eval([inst EXCEPT !.finish_prediction = TRUE])
    ELSE [inst EXCEPT !.prediction_list = Append(@, word)]

\* ------------------------------------------------------------- state
VARIABLES
    kind,                \* "none" | "live" (__init__ with args) | "replay" (from_log)
    dataloader,          \* len(self.dataloader); -1 when the dataloader is None
    start_index,         \* self.start_index
    end_index,           \* self.end_index
    sacrebleu_tokenizer, \* self.sacrebleu_tokenizer
    instance_class,      \* self.instance_class; "unset" when the attribute is absent
    instances,           \* self.instances: index -> instance
    ret,                 \* the last call: its name, arguments, exception and value
    log,                 \* what the last call emitted and did, in order
    orig                 \* the Scorer whose run wrote the log the current one was read from

vars == <<kind, dataloader, start_index, end_index, sacrebleu_tokenizer,
          instance_class, instances, ret, log, orig>>

scorerVars == <<kind, dataloader, start_index, end_index, sacrebleu_tokenizer,
                instance_class>>

NoScorer ==
    [kind |-> "none", start_index |-> 0, end_index |-> 0,
     sacrebleu_tokenizer |-> "13a", instances |-> EmptyDict]

Call(op, arg, err, val) == [op |-> op, arg |-> arg, err |-> err, val |-> val]

Init ==
    /\ kind = "none"
    /\ dataloader = -1
    /\ start_index = 0
    /\ end_index = 0
    /\ sacrebleu_tokenizer = "13a"
    /\ instance_class = "unset"
    /\ instances = EmptyDict
    /\ ret = Call("none", <<>>, "", <<>>)
    /\ log = <<>>
    /\ orig = NoScorer

\* What a call emits and does, in order: warnings, constructions,
\* finalizations, reads.
Event(e, msg, ids) == [e |-> e, msg |-> msg, ids |-> ids]

\* The outcome of a method: its exception, self.instances after it, its value
\* and its events.
Outcome(err, insts, val, lg) == [err |-> err, instances |-> insts, val |-> val, log |-> lg]

\* A method of the current Scorer ran with outcome r.
Apply(op, arg, r) ==
    /\ instances' = r.instances
    /\ ret' = Call(op, arg, r.err, r.val)
    /\ log' = r.log
    /\ UNCHANGED <<scorerVars, orig>>

\* ------------------------------------------------------------ reset
\* The events of reset(): the warning first, then one construction per index.
ResetLog(insts, start, end) ==
    (IF Cardinality(DOMAIN insts) > 0 THEN <<Event("warning", "Resetting scorer", <<>>)>>
     ELSE <<>>)
    \o [k \in 1..Len(IndexList(start, end)) |->
            Event("construct", "", <<IndexList(start, end)[k]>>)]

\* Variant: the loop runs one index too far (range(start, end + 1)).
ResetInstances_inclusive(insts, cls, start, end) ==
    [i \in DOMAIN insts \cup (start .. end) |->
        IF i \in start .. end THEN NewInstance(cls, i) ELSE insts[i]]

\* Variant: an index that already has an instance keeps it
\* (if i not in self.instances).
ResetInstances_keep(insts, cls, start, end) ==
    [i \in DOMAIN insts \cup get_indices(start, end) |->
        IF i \in DOMAIN insts THEN insts[i] ELSE NewInstance(cls, i)]

\* self.instances after the loop of reset().
ResetInstances(insts, cls, start, end) ==
    [i \in DOMAIN insts \cup get_indices(start, end) |->
        IF i \in get_indices(start, end) THEN NewInstance(cls, i) ELSE insts[i]]

\* SentenceLevelScorer.__len__
ScorerLen(start, end) == end - start

\* ------------------------------------------------------------ __init__
\* The configurations the model constructs a Scorer from: the range lies in
\* the corpus (an index past it fails inside the Instance constructor) and
\* is not inverted.
EndIndexOf(n, e) == IF e < 0 THEN n ELSE e

InstanceClassOf(source_type) ==
    IF source_type = "speech" THEN "SpeechToTextInstance" ELSE "TextToTextInstance"

Construct ==
    /\ kind = "none"
    /\ \E n \in 0..MaxData, s \in 0..MaxData, e \in -1..MaxData,
          st \in SourceTypes, tok \in Tokenizers, doReset \in BOOLEAN :
        /\ s <= EndIndexOf(n, e)
        /\ EndIndexOf(n, e) <= n
        /\ kind' = "live"
        /\ dataloader' = n
        /\ start_index' = s
        /\ end_index' = EndIndexOf(n, e)
        /\ sacrebleu_tokenizer' = tok
        /\ instance_class' = InstanceClassOf(st)
        /\ instances' = IF doReset
                        THEN ResetInstances(EmptyDict, InstanceClassOf(st), s, EndIndexOf(n, e))
                        ELSE EmptyDict
        /\ log' = IF doReset THEN ResetLog(EmptyDict, s, EndIndexOf(n, e)) ELSE <<>>
        /\ ret' = Call("__init__",
                        [dataloader |-> n, start_index |-> s, end_index |-> e,
                         source_type |-> st, sacrebleu_tokenizer |-> tok,
                         reset |-> doReset], "", <<>>)
        /\ orig' = NoScorer

reset ==
    /\ kind # "none"
    /\ IF instance_class = "unset" /\ get_indices(start_index, end_index) # {}
       THEN \* the first iteration reads an attribute from_log never set
            /\ log' = ResetLog(instances, start_index, start_index)
            /\ ret' = Call("reset", <<>>, "AttributeError", <<>>)
            /\ UNCHANGED instances
       ELSE /\ instances' = ResetInstances(instances, instance_class, start_index, end_index)
            /\ log' = ResetLog(instances, start_index, end_index)
            /\ ret' = Call("reset", <<>>, "", <<>>)
    /\ UNCHANGED <<scorerVars, orig>>

\* ------------------------------------------------------------ send_source
\* Variant: the request is forwarded to every instance of the mapping.
SendSource_all(insts, instance_id, segment_size) ==
    IF instance_id \notin DOMAIN insts
    THEN Outcome("KeyError", insts, <<>>, <<>>)
    ELSE Outcome("",
                 [j \in DOMAIN insts |-> InstanceSendSource(insts[j], segment_size)[1]],
                 ("instance_id" :> instance_id)
                    @@ InstanceSendSource(insts[instance_id], segment_size)[2],
                 <<>>)

\* self.instances[instance_id].send_source(...), then the id is merged in.
SendSource(insts, instance_id, segment_size) ==
    IF instance_id \notin DOMAIN insts
    THEN Outcome("KeyError", insts, <<>>, <<>>)
    ELSE LET r == InstanceSendSource(insts[instance_id], segment_size)
         IN  Outcome("", [insts EXCEPT ![instance_id] = r[1]],
                     ("instance_id" :> instance_id) @@ r[2], <<>>)

send_source ==
    /\ kind = "live"
    /\ \E instance_id \in 0..MaxData, segment_size \in SegmentSizes :
        Apply("send_source", <<instance_id, segment_size>>,
              SendSource(instances, instance_id, segment_size))

\* The driver hands a word (or the end-of-sequence marker) to an unfinished
\* instance of the live Scorer.
receive_prediction ==
    /\ kind = "live"
    /\ \E i \in DOMAIN instances, word \in Words \cup {"</s>"} :
        /\ ~instances[i].finish_prediction
        /\ word # "</s>" => Len(instances[i].prediction_list) + 1 \in PredictionLengths
        /\ instances' = [instances EXCEPT ![i] = InstanceReceive(@, word)]
        /\ ret' = Call("receive_prediction", <<>>, "", <<>>)
    /\ log' = <<>>
    /\ UNCHANGED <<scorerVars, orig>>

\* --------------------------------------------------- sacrebleu (interface)
RECURSIVE Flatten(_)
Flatten(ws) == IF ws = <<>> THEN <<>> ELSE Chars[Head(ws)] \o Flatten(Tail(ws))

\* The tokens sacrebleu counts: words under "13a", characters under "char".
Tokenize(tok, sentence) == IF tok = "char" THEN Flatten(sentence) ELSE sentence

Count(seq, t) == Cardinality({k \in DOMAIN seq : seq[k] = t})

\* Clipped unigram matches of one hypothesis against its reference.
Matches(hyp, ref) ==
    LET T == {hyp[k] : k \in DOMAIN hyp}
        m == [t \in T |-> Min(Count(hyp, t), Count(ref, t))]
    IN  SumOver(m, T)

\* sacrebleu.corpus_bleu(hyps, [refs], tokenize=tok).score: one aggregate
\* over the corpus, here its unigram precision and its length ratio.
corpus_bleu(hyps, refs, tok) ==
    LET K == DOMAIN hyps
        h == [k \in K |-> Tokenize(tok, hyps[k])]
        r == [k \in K |-> Tokenize(tok, refs[k])]
        correct == SumOver([k \in K |-> Matches(h[k], r[k])], K)
        sys_len == SumOver([k \in K |-> Len(h[k])], K)
        ref_len == SumOver([k \in K |-> Len(r[k])], K)
    IN  [precision |-> Frac(correct, sys_len), ratio |-> Frac(sys_len, ref_len)]

\* ------------------------------------------------------------ events
RECURSIVE SortedSeq(_)
SortedSeq(S) ==
    IF S = {} THEN <<>>
    ELSE LET m == CHOOSE x \in S : \A y \in S : x <= y
         IN  <<m>> \o SortedSeq(S \ {m})

\* ------------------------------------------------ get_translation_list
\* The indices the empty-hypothesis warning names.
empty_hypo_id(start, end, insts) ==
    SelectSeq(IndexList(start, end), LAMBDA i : Len(insts[i].prediction) = 0)

not_finish_write_id(start, end, insts) ==
    SelectSeq(IndexList(start, end), LAMBDA i : ~insts[i].finish_prediction)

get_translation_list(start, end, insts) ==
    LET idx == IndexList(start, end)
    IN  IF ~(get_indices(start, end) \subseteq DOMAIN insts)
        THEN Outcome("KeyError", insts, <<>>, <<>>)
        ELSE
        LET nf    == not_finish_write_id(start, end, insts)
            empty == empty_hypo_id(start, end, insts)
            after == [i \in DOMAIN insts |->
                        IF \E k \in DOMAIN nf : nf[k] = i
                        THEN sentence_level_eval(insts[i]) ELSE insts[i]]
            lg    == (IF Len(nf) > 0
                      THEN <<Event("warning", "these hypothesis don't have EOS in predictions", nf)>>
                           \o [k \in DOMAIN nf |-> Event("sentence_level_eval", "", <<nf[k]>>)]
                      ELSE <<>>)
                     \o (IF Len(empty) > 0
                         THEN <<Event("warning", "these hypothesis are empty", empty)>>
                         ELSE <<>>)
                     \o [k \in DOMAIN idx |-> Event("prediction", "", <<idx[k]>>)]
        IN  Outcome("", after, [k \in DOMAIN idx |-> after[idx[k]].prediction], lg)

\* ------------------------------------------------- get_reference_list
get_reference_list(start, end, insts) ==
    LET idx == IndexList(start, end)
    IN  IF ~(get_indices(start, end) \subseteq DOMAIN insts)
        THEN Outcome("KeyError", insts, <<>>, <<>>)
        ELSE Outcome("", insts, [k \in DOMAIN idx |-> insts[idx[k]].reference],
                     [k \in DOMAIN idx |-> Event("reference", "", <<idx[k]>>)])

\* -------------------------------------------------- get_quality_score
get_quality_score(start, end, insts, tok) ==
    LET t == get_translation_list(start, end, insts)
        r == get_reference_list(start, end, t.instances)
    IN  IF t.err # "" THEN t
        ELSE IF r.err # "" THEN Outcome(r.err, t.instances, <<>>, t.log)
        ELSE Outcome("", t.instances, [BLEU |-> corpus_bleu(t.val, r.val, tok)],
                     t.log \o r.log)

\* -------------------------------------------------- get_latency_score
\* Variant: only the instances that saw the end-of-sequence marker are averaged.
LatencyInstances_finished(insts) ==
    {k \in DOMAIN insts : insts[k].finish_prediction}

\* The instances the three list comprehensions iterate: self.instances.values().
LatencyInstances(insts) == DOMAIN insts

\* The instance whose metrics decide which optional families are reported.
FirstInstance == 0

\* results[key] = mean([seg.metrics[fam][metric] for seg in ...]).
ReadFamily(insts, fam, metric, key, acc) ==
    IF acc.err # "" THEN acc
    ELSE IF \E k \in LatencyInstances(insts) : fam \notin DOMAIN insts[k].metrics
    THEN [acc EXCEPT !.err = "KeyError"]
    ELSE IF LatencyInstances(insts) = {}
    THEN [acc EXCEPT !.err = "StatisticsError"]
    ELSE [acc EXCEPT
            !.val = (key :> mean([k \in LatencyInstances(insts) |-> insts[k].metrics[fam][metric]])) @@ @,
            !.log = Append(@, Event("metrics", key, SortedSeq(LatencyInstances(insts))))]

\* if fam in self.instances[0].metrics: results[key] = mean(...)
ReadOptional(insts, fam, metric, key, acc) ==
    IF acc.err # "" THEN acc
    ELSE IF FirstInstance \notin DOMAIN insts THEN [acc EXCEPT !.err = "KeyError"]
    ELSE IF fam \in DOMAIN insts[FirstInstance].metrics
    THEN ReadFamily(insts, fam, metric, key, acc)
    ELSE acc

\* One pass of the loop over the metric names.
OneMetric(insts, metric, acc) ==
    ReadOptional(insts, "latency_text_w_time", metric, KeyTime[metric],
        ReadOptional(insts, "latency_ca", metric, KeyCA[metric],
            ReadFamily(insts, "latency", metric, metric, acc)))

RECURSIVE LatencyLoop(_, _, _)
LatencyLoop(insts, k, acc) ==
    IF k > Len(MetricNames) THEN acc
    ELSE LatencyLoop(insts, k + 1, OneMetric(insts, MetricNames[k], acc))

get_latency_score(insts) ==
    LET r == LatencyLoop(insts, 1, Outcome("", insts, EmptyDict, <<>>))
    IN  IF r.err # "" THEN [r EXCEPT !.val = <<>>] ELSE r

\* ------------------------------------------------------------ score
ScoreOf(start, end, insts, tok) ==
    LET q == get_quality_score(start, end, insts, tok)
        l == get_latency_score(q.instances)
    IN  IF q.err # "" THEN q
        ELSE IF l.err # "" THEN Outcome(l.err, q.instances, <<>>, q.log \o l.log)
        ELSE Outcome("", q.instances, [Quality |-> q.val, Latency |-> l.val],
                     q.log \o l.log)

translation_list ==
    /\ kind # "none"
    /\ Apply("get_translation_list", <<>>,
             get_translation_list(start_index, end_index, instances))

latency_score ==
    /\ kind # "none"
    /\ Apply("get_latency_score", <<>>, get_latency_score(instances))

score ==
    /\ kind # "none"
    /\ Apply("score", <<>>,
             ScoreOf(start_index, end_index, instances, sacrebleu_tokenizer))

\* ------------------------------------------------------------ from_log
\* One line of the log: what Instance serialization writes for an instance.
to_json(inst) ==
    [index |-> inst.index, prediction |-> inst.prediction,
     reference |-> inst.reference, metric |-> inst.metrics]

\* TextOutputInstance.from_json(line)
from_json(line) ==
    [index             |-> line.index,
     cls               |-> "TextOutputInstance",
     step              |-> 0,
     prediction_list   |-> line.prediction,
     prediction        |-> line.prediction,
     reference         |-> line.reference,
     finish_prediction |-> TRUE,
     metrics           |-> line.metric]

\* The key a deserialized instance is stored under.
LogKey(lines, k) == from_json(lines[k]).index

\* The dict the loop over the lines builds: a later line replaces an earlier
\* one that reports the same index.
LogInstances(lines) ==
    LET keys == {LogKey(lines, k) : k \in DOMAIN lines}
        last(i) == CHOOSE k \in DOMAIN lines :
                      /\ LogKey(lines, k) = i
                      /\ \A j \in DOMAIN lines : LogKey(lines, j) = i => j <= k
    IN  [i \in keys |-> from_json(lines[last(i)])]

\* Variant: the number of lines read, not the number of distinct keys.
LogEndIndex_count(lines) == Len(lines)

\* scorer.end_index = len(instances.keys())
LogEndIndex(lines) == Cardinality(DOMAIN LogInstances(lines))

\* Variant: the target type is checked only after the log was read.
FromLogEvents_late(lines, target_type) ==
    <<Event("open", "", <<>>)>>
    \o [k \in DOMAIN lines |-> Event("from_json", "", <<lines[k].index>>)]
    \o (IF target_type # "text" THEN <<>> ELSE <<Event("__init__", "", <<>>)>>)

\* What from_log does, in order: nothing before the target type is accepted.
FromLogEvents(lines, target_type) ==
    IF target_type # "text" THEN <<>>
    ELSE <<Event("open", "", <<>>)>>
         \o [k \in DOMAIN lines |-> Event("from_json", "", <<lines[k].index>>)]
         \o <<Event("__init__", "", <<>>)>>

\* The lines a log written elsewhere may hold: any index, with or without
\* the optional metric families.
LogFamilies ==
    {{"latency"}, {"latency", "latency_ca"}, {"latency", "latency_text_w_time"}}

LogLines ==
    {[index |-> i, prediction |-> p, reference |-> Reference(i),
      metric |-> [fam \in F |-> Latency(fam, Len(p))]] :
        i \in 0..MaxLog, p \in {<<>>, <<"ab">>}, F \in LogFamilies}

Logs == UNION {[1..n -> LogLines] : n \in 0..MaxLog}

TargetTypes == {"text", "speech"}

FromLog(lines, target_type, snapshot) ==
    IF target_type # "text"
    THEN /\ ret' = Call("from_log", <<target_type>>, "NotImplementedError", <<>>)
         /\ log' = FromLogEvents(lines, target_type)
         /\ UNCHANGED <<scorerVars, instances, orig>>
    ELSE /\ kind' = "replay"
         /\ dataloader' = -1
         /\ instance_class' = "unset"
         /\ sacrebleu_tokenizer' = "13a"
         /\ start_index' = 0
         /\ end_index' = LogEndIndex(lines)
         /\ instances' = LogInstances(lines)
         /\ ret' = Call("from_log", <<target_type>>, "", <<>>)
         /\ log' = FromLogEvents(lines, target_type)
         /\ orig' = snapshot

\* from_log on a log file written elsewhere, in a fresh process.
from_log ==
    /\ kind = "none"
    /\ \E lines \in Logs, target_type \in TargetTypes :
        FromLog(lines, target_type, NoScorer)

Perms(S) ==
    {p \in [1..Cardinality(S) -> S] : \A a, b \in 1..Cardinality(S) : p[a] = p[b] => a = b}

Snapshot ==
    [kind |-> kind, start_index |-> start_index, end_index |-> end_index,
     sacrebleu_tokenizer |-> sacrebleu_tokenizer, instances |-> instances]

\* The run's log (one line per finished instance, in any line order) is
\* written and from_log reads it back.
replay_run ==
    /\ kind = "live"
    /\ DOMAIN instances # {}
    /\ \A i \in DOMAIN instances : instances[i].finish_prediction
    /\ \E order \in Perms(DOMAIN instances), target_type \in TargetTypes :
        FromLog([k \in DOMAIN order |-> to_json(instances[order[k]])], target_type, Snapshot)

Next ==
    \/ Construct
    \/ reset
    \/ send_source
    \/ receive_prediction
    \/ translation_list
    \/ latency_score
    \/ score
    \/ from_log
    \/ replay_run

Spec == Init /\ [][Next]_vars

\* ============================================================ properties
\* The configured range of the current Scorer, written out.
Configured == start_index .. (end_index - 1)

\* The positions of the events named e in a call's events.
Positions(lg, e) == {k \in DOMAIN lg : lg[k].e = e}

\* The indices the events named e report, in order.
Reported(lg, e) ==
    LET sel == SelectSeq(lg, LAMBDA ev : ev.e = e)
    IN  [k \in DOMAIN sel |-> sel[k].ids[1]]

\* r is the arithmetic mean of f over the non-empty set S.
IsMeanOf(r, f, S) ==
    /\ S # {}
    /\ r.den > 0
    /\ r.num * Cardinality(S) = r.den * SumOver(f, S)

C6_SendSourceFrame ==
    [][ ret'.op = "send_source" =>
            LET id == ret'.arg[1]
                size == ret'.arg[2]
            IN  /\ UNCHANGED <<kind, dataloader, start_index, end_index,
                               sacrebleu_tokenizer, instance_class>>
                /\ DOMAIN instances' = DOMAIN instances
                /\ \A j \in DOMAIN instances : j # id => instances'[j] = instances[j]
                /\ IF id \in DOMAIN instances
                   THEN /\ ret'.err = ""
                        /\ ret'.val.instance_id = id
                        /\ ret'.val.segment = InstanceSendSource(instances[id], size)[2].segment
                        /\ ret'.val.finished = InstanceSendSource(instances[id], size)[2].finished
                   ELSE /\ ret'.err = "KeyError"
                        /\ instances' = instances
      ]_vars

\* Source was delivered to one of several instances, which consumed it.
C6_Witness ==
    /\ ret.op = "send_source"
    /\ ret.err = ""
    /\ Cardinality(DOMAIN instances) >= 2
    /\ instances[ret.arg[1]].step = 1
    /\ \E j \in DOMAIN instances : instances[j].step = 0

\* ------------------------------------------------------------------ C7
\* C7: from_log with a target type other than "text" fails with
\* NotImplementedError before the log is opened or a line deserialized; no
\* Instance and no Scorer is built, and the current state is untouched.
C7_UnsupportedTargetFailsFirst ==
    [][ (ret'.op = "from_log" /\ ret'.arg[1] # "text") =>
            /\ ret'.err = "NotImplementedError"
            /\ Positions(log', "open") = {}
            /\ Positions(log', "from_json") = {}
            /\ Positions(log', "__init__") = {}
            /\ UNCHANGED <<scorerVars, instances, orig>>
      ]_vars

\* The failing call was made on the log of a finished run of two sentences.
C7_Witness ==
    /\ ret.op = "from_log"
    /\ ret.err = "NotImplementedError"
    /\ kind = "live"
    /\ Cardinality(DOMAIN instances) >= 2

\* ----------------------------------------------------------------- C10
\* C10: reset() of a live Scorer replaces the instance at every index of the
\* range by a fresh instance of the selected variant (nothing of the previous
\* instance survives), constructs exactly one instance per index, and warns
\* if and only if the mapping was non-empty, before any replacement.
C10_ResetIsDestructive ==
    [][ /\ ret'.op = "__init__" =>
            /\ instance_class' = (IF ret'.arg.source_type = "speech"
                                  THEN "SpeechToTextInstance" ELSE "TextToTextInstance")
            /\ Positions(log', "warning") = {}
        /\ (kind = "live" /\ ret'.op = "reset") =>
            /\ ret'.err = ""
            /\ \A i \in Configured :
                /\ i \in DOMAIN instances'
                /\ instances'[i].index = i
                /\ instances'[i].cls = instance_class
                /\ instances'[i].step = 0
                /\ instances'[i].prediction_list = <<>>
                /\ instances'[i].prediction = <<>>
                /\ ~instances'[i].finish_prediction
                /\ DOMAIN instances'[i].metrics = {}
            /\ Reported(log', "construct") = IndexList(start_index, end_index)
            /\ (DOMAIN instances # {}) <=> (Positions(log', "warning") # {})
            /\ Positions(log', "warning") \subseteq {1}
      ]_vars

\* A reset that replaced two instances after warning.
C10_Witness ==
    /\ kind = "live"
    /\ ret.op = "reset"
    /\ Len(log) >= 3
    /\ log[1].e = "warning"
    /\ log[2].e = "construct"

\* ------------------------------------------------------------------ C8
\* C8: whenever score() succeeds (live or replay), each of AL, AP and DAL is
\* the arithmetic mean of metrics["latency"][metric] over exactly the
\* instances at the indices of the configured range, each once: the instances,
\* and the number of them, whose predictions and references were collected.
C8_LatencyIsMeanOverRange ==
    (ret.op = "score" /\ ret.err = "") =>
        /\ Configured \subseteq DOMAIN instances
        /\ \A k \in DOMAIN MetricNames :
            IsMeanOf(ret.val.Latency[MetricNames[k]],
                     [i \in Configured |-> instances[i].metrics["latency"][MetricNames[k]]],
                     Configured)
        /\ Reported(log, "prediction") = IndexList(start_index, end_index)
        /\ Reported(log, "reference") = IndexList(start_index, end_index)
        /\ \A k \in Positions(log, "metrics") :
            log[k].ids = IndexList(start_index, end_index)

\* A successful score() over two instances with different AL.
C8_Witness ==
    /\ ret.op = "score"
    /\ ret.err = ""
    /\ ret.val.Latency["AL"].den = 2

\* ------------------------------------------------------------------ C3
\* The indices the lines of the log read by from_log reported.
LoggedIndices == {log[k].ids[1] : k \in Positions(log, "from_json")}

\* The Scorer from_log returned can assemble its lists.
ReadyForScore ==
    /\ start_index = 0
    /\ Configured \subseteq DOMAIN instances
    /\ get_translation_list(start_index, end_index, instances).err = ""
    /\ get_reference_list(start_index, end_index, instances).err = ""

\* C3 (as claimed): for every log content, whatever indices its records
\* report, the Scorer from_log returns has start_index 0 and an instance at
\* every index of its range, so list assembly never fails with a KeyError.
C3_AnyLogReady ==
    (ret.op = "from_log" /\ ret.err = "") => ReadyForScore

\* C3 (amended): when the indices the records report are exactly 0..k-1 for
\* some k (in any line order, duplicates allowed), the Scorer from_log returns
\* has start_index 0, end_index k and key set 0..k-1, and list assembly does
\* not fail.
C3_DenseLogReady ==
    (/\ ret.op = "from_log"
     /\ ret.err = ""
     /\ LoggedIndices = 0 .. (Cardinality(LoggedIndices) - 1)) =>
        /\ ReadyForScore
        /\ end_index = Cardinality(LoggedIndices)
        /\ DOMAIN instances = Configured

\* A log of two lines that both report index 0 was read.
C3_Witness ==
    /\ ret.op = "from_log"
    /\ ret.err = ""
    /\ Cardinality(Positions(log, "from_json")) = 2
    /\ LoggedIndices = {0}

\* ------------------------------------------------------------------ C1
\* C1: with any number of unfinished instances in a populated range, score()
\* does not fail and returns Quality.BLEU and Latency AL, AP and DAL; every
\* unfinished instance is finalized (sentence_level_eval) before its
\* prediction is collected and before any latency metric is read, and no
\* finished instance is finalized again.
C1_ScoreWithUnfinished ==
    (/\ kind = "live"
     /\ ret.op = "score"
     /\ Configured \subseteq DOMAIN instances
     /\ \E i \in Configured : ~instances[i].finish_prediction) =>
        /\ ret.err = ""
        /\ "BLEU" \in DOMAIN ret.val.Quality
        /\ {"AL", "AP", "DAL"} \subseteq DOMAIN ret.val.Latency
        /\ \A i \in Configured :
            IF instances[i].finish_prediction
            THEN \A k \in Positions(log, "sentence_level_eval") : log[k].ids # <<i>>
            ELSE \E k \in Positions(log, "sentence_level_eval") :
                    /\ log[k].ids = <<i>>
                    /\ \A j \in Positions(log, "prediction") : log[j].ids = <<i>> => k < j
                    /\ \A j \in Positions(log, "metrics") : k < j

\* ------------------------------------------------------------------ C2
\* C2: for every configured range, also one with start_index > 0,
\* get_latency_score() succeeds on finalized instances, and the keys
\* metric+"_CA" (metric+" (Time in ms)") are in its result for all of AL, AP,
\* DAL exactly when the first instance of the range has "latency_ca"
\* ("latency_text_w_time") in its metrics.
C2_OptionalKeysFollowFirstInstance ==
    (/\ kind = "live"
     /\ ret.op = "get_latency_score"
     /\ Configured # {}
     /\ DOMAIN instances = Configured
     /\ \A i \in Configured : "latency" \in DOMAIN instances[i].metrics) =>
        /\ ret.err = ""
        /\ \A k \in DOMAIN MetricNames :
            /\ MetricNames[k] \in DOMAIN ret.val
            /\ KeyCA[MetricNames[k]] \in DOMAIN ret.val
                <=> "latency_ca" \in DOMAIN instances[start_index].metrics
            /\ KeyTime[MetricNames[k]] \in DOMAIN ret.val
                <=> "latency_text_w_time" \in DOMAIN instances[start_index].metrics

\* ------------------------------------------------------------------ C5
\* C5: when the finished instances of a run are numbered 0..n-1 and its log
\* (one line per instance, any line order) is read back by from_log, the
\* reconstructed Scorer has the same keys and per-instance prediction,
\* reference and metrics, start_index 0 and end_index n, and its score()
\* equals the original Scorer's score(), Quality and Latency both.
C5_RoundTrip ==
    (/\ ret.op = "from_log"
     /\ ret.err = ""
     /\ orig.kind = "live"
     /\ orig.start_index = 0
     /\ DOMAIN orig.instances = 0 .. (orig.end_index - 1)
     /\ DOMAIN orig.instances # {}) =>
        /\ start_index = 0
        /\ end_index = Cardinality(DOMAIN orig.instances)
        /\ DOMAIN instances = DOMAIN orig.instances
        /\ \A i \in DOMAIN instances :
            /\ instances[i].prediction = orig.instances[i].prediction
            /\ instances[i].reference = orig.instances[i].reference
            /\ instances[i].metrics = orig.instances[i].metrics
        /\ LET new == ScoreOf(start_index, end_index, instances, sacrebleu_tokenizer)
               old == ScoreOf(orig.start_index, orig.end_index, orig.instances,
                              orig.sacrebleu_tokenizer)
           IN  /\ new.err = old.err
               /\ new.val = old.val

\* ------------------------------------------------------------------ C9
\* C9: the empty-prediction warning of get_translation_list names exactly the
\* instances of the range whose returned prediction (the one after forced
\* finalization) is empty.
C9_EmptyWarningMatchesReturned ==
    (ret.op = "get_translation_list" /\ ret.err = "") =>
        LET idx == IndexList(start_index, end_index)
            warned == UNION {{log[k].ids[j] : j \in DOMAIN log[k].ids} :
                             k \in {p \in Positions(log, "warning") :
                                       log[p].msg = "these hypothesis are empty"}}
        IN  /\ Len(ret.val) = Len(idx)
            /\ warned = {idx[k] : k \in {j \in DOMAIN idx : Len(ret.val[j]) = 0}}

\* --------------------------------------------------- auxiliary facts
\* Where the statements of C1, C2, C5 and C9 do hold: they fail only in the
\* cases named below.

\* With start_index = 0 the statements of C1 and C2 hold.
HoldsFromIndexZero ==
    start_index = 0 =>
        /\ C1_ScoreWithUnfinished
        /\ C2_OptionalKeysFollowFirstInstance

\* With the default tokenizer the round trip of C5 holds.
HoldsWithDefaultTokenizer ==
    orig.sacrebleu_tokenizer = "13a" => C5_RoundTrip

\* When no instance of the range is unfinished the statement of C9 holds.
HoldsWhenAllFinished ==
    (\A i \in Configured \cap DOMAIN instances : instances[i].finish_prediction)
        => C9_EmptyWarningMatchesReturned

====
